---------------------------- MODULE Spec2Model ----------------------------
(***************************************************************************)
(* The real-time frame pipeline of the edge detection viewer:              *)
(* EdgeDetectionApp (main.ts) driving CameraHandler, OpenCVProcessor,      *)
(* WebGLRenderer, UIController and FPSCounter.                             *)
(*                                                                         *)
(* JavaScript runs every handler to completion on one thread.  A handler   *)
(* is one action, except the tick (processLoop), which is cut at its four  *)
(* statements so that the order inside a tick is visible; while a tick is  *)
(* between two of its statements (tickpc # "none") no other handler runs.  *)
(*                                                                         *)
(* Spec     the application: clicks, the asynchronous device open, the     *)
(*          animation-frame callbacks, the engine load, beforeunload.      *)
(*          beforeunload is dispatched when a navigation starts; the       *)
(*          document stays live, and keeps receiving clicks, promise       *)
(*          resolutions and animation frames, until the navigation         *)
(*          commits or is abandoned, so no event is ruled out after it.    *)
(* ApiSpec  the exported classes CameraHandler and OpenCVProcessor called  *)
(*          directly by a client, in any order their signatures allow.     *)
(***************************************************************************)
EXTENDS Integers, Sequences, FiniteSets, TLC

\* ------------------------------------------------------------------ bounds
\* startCamera calls that may await getUserMedia at once
MaxStarts == 1
\* capture sessions opened and not closed, and tick loops started and not
\* ended, at once: each successful start adds one of either
MaxSessions == 2
\* the clock advances in steps of TimeStep ms, MaxSteps times at most
MaxSteps == 1
\* ticks counted inside one measurement window before the window must close
MaxFrameCount == 1

\* ClockSpec: the calls of update() a client makes, and how far its time runs
MaxClockTicks == 30
MaxClockNow == 1100
\* ClockSpec: the milliseconds that pass between two calls
ClockSteps == {34, 500}

MaxStreams == MaxSessions
MaxPending == MaxSessions

\* contents of the live video signal
Frames == {1, 2}
\* what performance.now() may measure over one processFrame call, microseconds
Durations == {6}

\* ------------------------------------------------------- program constants
\* FPSCounter.update: the measurement window, ms
WindowMs == 1000
\* CameraHandler.getDimensions: the fallback dimensions
DefaultWidth == 640
DefaultHeight == 480

\* one step of the clock: a measurement window
TimeStep == WindowMs

\* The resolutions the device may deliver: getUserMedia takes 640x480 as an
\* ideal, not as a requirement, and the model's device delivers less.
Dims == { [w |-> 320, h |-> 240] }
NoDims == [w |-> 0, h |-> 0]

\* The statements of processFrame that call into OpenCV, in order.
\*   1 matFromImageData   2 new Mat (gray)   3 new Mat (edge)   4 cvtColor
\*   5 GaussianBlur       6 Canny            7 cvtColor back    8 new ImageData
NumSteps == 8
FailPoints == 0..NumSteps

None == [w |-> 0, h |-> 0, kind |-> "none", id |-> 0]

VARIABLES
  \* EdgeDetectionApp
  isRunning, processingEnabled, animationFrameId,
  gumPending,     \* startCamera calls suspended in camera.start() at getUserMedia
  metaPending,    \* video.onloadedmetadata holds the resolver of a suspended camera.start()
  initPc,         \* processor.initialize()'s promise: "pending" | "resolved" | "rejected"
  tickpc,         \* processLoop: "none" | "capture" | "transform" | "present" | "clock"
  frameData, outputData,   \* processLoop's locals (ApiSpec: the last call's argument and result)
  raised,         \* the last call into OpenCVProcessor threw
  caught,         \* the last call into OpenCVProcessor logged an internal error
  allocated,      \* the Mats the last call into OpenCVProcessor allocated
  inStartCamera,  \* processLoop was called from startCamera()'s try block
  \* UIController
  ui,
  \* CameraHandler
  stream, isActive, video, canvas,
  \* OpenCVProcessor
  isReady, mats, processingTime,
  \* WebGLRenderer
  renderer,
  \* FPSCounter
  frameCount, lastTime, fps,
  \* the browser
  now,            \* performance.now(), ms
  rafPending,     \* animation-frame callbacks requested and not yet run or cancelled
  liveStreams,    \* device streams whose tracks have not been stopped
  cvState,        \* the OpenCV.js script: "undefined" | "loading" | "ready"
  deviceDims,     \* the resolution the capture device delivers
  timerPending    \* initialize()'s 10 s timer has not fired yet

appVars   == <<isRunning, processingEnabled, animationFrameId, initPc>>
startVars == <<gumPending, metaPending>>
tickVars  == <<tickpc, inStartCamera, frameData, outputData, raised, caught, allocated>>
camVars   == <<stream, isActive, video, canvas>>
procVars  == <<isReady, mats, processingTime>>
clockVars == <<frameCount, lastTime, fps>>
envVars   == <<rafPending, liveStreams, cvState, deviceDims, timerPending>>
vars == <<appVars, startVars, tickVars, ui, camVars, procVars, renderer,
          clockVars, now, envVars>>


\* --------------------------------------------------------------- UIController
\* What index.html shows before any script has run: both controls disabled.
InitialUi ==
  [ startEnabled |-> FALSE, toggleEnabled |-> FALSE,
    startText |-> "Start Camera", toggleText |-> "Toggle Processing",
    status |-> "", mode |-> "Idle", resolution |-> NoDims,
    fps |-> 0, processTime |-> 0, loading |-> FALSE ]

updateStatus(u, message) == [u EXCEPT !.status = message]
updateMode(u, m) == [u EXCEPT !.mode = m]
updateResolution(u, width, height) == [u EXCEPT !.resolution = [w |-> width, h |-> height]]
updateFPS(u, f) == [u EXCEPT !.fps = f]
updateProcessingTime(u, t) == [u EXCEPT !.processTime = t]
setStartButtonEnabled(u, enabled) == [u EXCEPT !.startEnabled = enabled]
setToggleButtonEnabled(u, enabled) == [u EXCEPT !.toggleEnabled = enabled]
setStartButtonText(u, text) == [u EXCEPT !.startText = text]
setToggleButtonText(u, text) == [u EXCEPT !.toggleText = text]
showLoading(u, show) == [u EXCEPT !.loading = show]

\* ------------------------------------------------------------ OpenCVProcessor
\* What OpenCV's pipeline makes of a frame.  The algorithm is outside this
\* model; what is kept is that the result has the input's dimensions and is
\* no raw frame.
EdgeDetect(img) == [img EXCEPT !.kind = "edge"]
Grayscale(img) == [img EXCEPT !.kind = "gray"]

\* A Mat field is "null", "live", or "deleted" (delete() was called on it).
NoMats == [mat |-> "null", grayMat |-> "null", edgeMat |-> "null"]

Min(S) == CHOOSE x \in S : \A y \in S : x <= y

\* The first statement of processFrame's try block that throws, 0 when none
\* does: the one OpenCV fails at (failAt), or the first that is handed a Mat
\* field that is null or deleted.  Statements 2 and 3 run only when this.mat
\* was null.
ProcessFrameFail(m, failAt) ==
  LET first == m.mat = "null"
      grayOk == IF first THEN failAt # 2 ELSE m.grayMat = "live"
      edgeOk == IF first THEN failAt # 2 /\ failAt # 3 ELSE m.edgeMat = "live"
      bad == { k \in 1..NumSteps :
                 \/ k = failAt /\ (k \in {2, 3} => first)
                 \/ k = 4 /\ ~grayOk
                 \/ k = 6 /\ ~edgeOk }
  IN IF bad = {} THEN 0 ELSE Min(bad)

\* The Mat fields after a call whose first throwing statement is f: statement
\* 1 assigns this.mat on both paths, 2 and 3 assign grayMat and edgeMat when
\* this.mat was null.
MatsAfter(m, f, withEdge) ==
  LET first == m.mat = "null"
      past(k) == f = 0 \/ f > k
  IN [ mat     |-> IF past(1) THEN "live" ELSE m.mat,
       grayMat |-> IF first /\ past(2) THEN "live" ELSE m.grayMat,
       edgeMat |-> IF withEdge /\ first /\ past(3) THEN "live" ELSE m.edgeMat ]

\* The Mats a call allocates whose first throwing statement is f: statement 1
\* (cv.matFromImageData) makes one on both paths, statements 2 and 3
\* (new cv.Mat()) one each when this.mat was null.
Allocated(m, f, withEdge) ==
  LET first == m.mat = "null"
      past(k) == f = 0 \/ f > k
      one(b) == IF b THEN 1 ELSE 0
  IN one(past(1)) + one(first /\ past(2)) + one(withEdge /\ first /\ past(3))

\* processFrame without its catch block: an internal failure reaches the caller
processFrameRethrows(imageData, ready, m, time, failAt, d) ==
  IF ~ready
  THEN [raised |-> TRUE, caught |-> FALSE, out |-> None, mats |-> m, time |-> time,
        allocs |-> 0]
  ELSE LET f == ProcessFrameFail(m, failAt)
       IN [ raised |-> f # 0, caught |-> f # 0,
            out |-> IF f = 0 THEN EdgeDetect(imageData) ELSE None,
            mats |-> MatsAfter(m, f, TRUE), time |-> d,
            allocs |-> Allocated(m, f, TRUE) ]

\* processFrame(imageData).  d is what performance.now() measures over the call.
processFrame(imageData, ready, m, time, failAt, d) ==
  IF ~ready
  THEN [raised |-> TRUE, caught |-> FALSE, out |-> None, mats |-> m, time |-> time,
        allocs |-> 0]
  ELSE LET f == ProcessFrameFail(m, failAt)
       IN [ raised |-> FALSE, caught |-> f # 0,
            out |-> IF f = 0 THEN EdgeDetect(imageData) ELSE imageData,
            mats |-> MatsAfter(m, f, TRUE), time |-> d,
            allocs |-> Allocated(m, f, TRUE) ]

\* The first statement of processGrayscale's try block that throws: it runs
\* statements 1, 2 (when this.mat was null), 4, 7 and 8.
ProcessGrayscaleFail(m, failAt) ==
  LET first == m.mat = "null"
      grayOk == IF first THEN failAt # 2 ELSE m.grayMat = "live"
      bad == { k \in {1, 2, 4, 7, 8} :
                 \/ k = failAt /\ (k = 2 => first)
                 \/ k = 4 /\ ~grayOk }
  IN IF bad = {} THEN 0 ELSE Min(bad)

\* processGrayscale(imageData): the duration is stored on success only.
processGrayscale(imageData, ready, m, time, failAt, d) ==
  IF ~ready
  THEN [raised |-> FALSE, caught |-> FALSE, out |-> imageData, mats |-> m, time |-> time,
        allocs |-> 0]
  ELSE LET f == ProcessGrayscaleFail(m, failAt)
       IN [ raised |-> FALSE, caught |-> f # 0,
            out |-> IF f = 0 THEN Grayscale(imageData) ELSE imageData,
            mats |-> MatsAfter(m, f, FALSE), time |-> IF f = 0 THEN d ELSE time,
            allocs |-> Allocated(m, f, FALSE) ]

\* cleanup(): delete() on mat, grayMat, edgeMat in turn, each when not null;
\* delete() on a Mat already deleted throws, which ends the try block.
processorCleanup(m) ==
  LET del(x) == IF x = "live" THEN "deleted" ELSE x
      ok1 == m.mat # "deleted"
      ok2 == ok1 /\ m.grayMat # "deleted"
  IN [ mat     |-> del(m.mat),
       grayMat |-> IF ok1 THEN del(m.grayMat) ELSE m.grayMat,
       edgeMat |-> IF ok2 THEN del(m.edgeMat) ELSE m.edgeMat ]

\* getProcessingTime(): Math.round(ms * 100) / 100, here in microseconds.
getProcessingTime(time) == ((time + 5) \div 10) * 10

\* ----------------------------------------------------------------- FPSCounter
\* Math.round(a / b) for a >= 0, b > 0.
Round(a, b) == (2 * a + b) \div (2 * b)

\* update() with `deltaTime > 1000`
updateStrict(count, last, rate, t) ==
  LET c == count + 1
      deltaTime == t - last
  IN IF deltaTime > WindowMs
     THEN <<0, t, Round(c * 1000, deltaTime)>>
     ELSE <<c, last, rate>>

\* update(): <<frameCount, lastTime, fps>> after the call, at time t.
update(count, last, rate, t) ==
  LET c == count + 1
      deltaTime == t - last
  IN IF deltaTime >= WindowMs
     THEN <<0, t, Round(c * 1000, deltaTime)>>
     ELSE <<c, last, rate>>

\* reset() without `this.fps = 0`
resetKeepsRate(t) == <<0, t, fps>>

\* reset(): <<frameCount, lastTime, fps>> after the call, at time t.
reset(t) == <<0, t, 0>>

\* -------------------------------------------------------------- WebGLRenderer
\* After the constructor: program, texture and the two buffers exist, the
\* texture holds nothing yet, the canvas has its default size.
InitialRenderer ==
  [ width |-> 300, height |-> 150, viewport |-> NoDims, texture |-> None,
    textures |-> 1, buffers |-> 2, programs |-> 1, geometry |-> "quad",
    disposed |-> FALSE ]

\* render() calling createTexture() for every frame
renderRecreates(r, imageData) ==
  IF r.disposed
  THEN [r EXCEPT !.viewport = [w |-> r.width, h |-> r.height]]
  ELSE [r EXCEPT !.texture = imageData, !.textures = 2,
                 !.viewport = [w |-> r.width, h |-> r.height]]

\* render(imageData): texImage2D replaces the texture, then the quad is drawn.
\* On a deleted texture and program the calls raise GL errors, not
\* exceptions, and nothing is uploaded or drawn.
render(r, imageData) ==
  IF r.disposed
  THEN [r EXCEPT !.viewport = [w |-> r.width, h |-> r.height]]
  ELSE [r EXCEPT !.texture = imageData,
                 !.viewport = [w |-> r.width, h |-> r.height]]

\* startCamera() going on without its renderer.resize(width, height)
resizeSkipped(r, width, height) == r

\* resize(width, height)
resize(r, width, height) ==
  [r EXCEPT !.width = width, !.height = height,
            !.viewport = [w |-> width, h |-> height]]

\* cleanup(): deletes texture, buffers and program.
rendererCleanup(r) == [r EXCEPT !.disposed = TRUE, !.texture = None]


\* -------------------------------------------------------------- CameraHandler
\* After the constructor: no stream, not active; the hidden video element
\* has no source, the input canvas its default size and nothing drawn.
InitialCanvas == [w |-> 300, h |-> 150, img |-> 0]

\* A stream object the device has not handed out before, as far as the page
\* can tell: none that is live and not the one this.stream holds.
FreshStream == Min({ s \in 1..(MaxStreams + 1) : s \notin liveStreams \cup {stream} })

\* stop() dropping the stream without stopping its tracks
StopTracksSkipped(live, s) == live

\* stream.getTracks().forEach(track => track.stop()), when this.stream is set
StopTracks(live, s) == live \ {s}

\* stop()
cameraStop ==
  /\ liveStreams' = (IF stream # 0 THEN StopTracks(liveStreams, stream) ELSE liveStreams)
  /\ stream' = 0
  /\ isActive' = FALSE
  /\ UNCHANGED <<video, canvas>>

\* start(), getUserMedia resolved: this.stream and video.srcObject are set,
\* video.onloadedmetadata takes this call's resolver.
cameraGranted ==
  /\ Cardinality(liveStreams) < MaxStreams
  /\ stream' = FreshStream
  /\ liveStreams' = liveStreams \cup {FreshStream}
  /\ video' = NoDims
  /\ metaPending' = TRUE
  /\ UNCHANGED <<isActive, canvas>>

\* start(), loadedmetadata fired with the delivered resolution d: the call
\* resumes, marks the handler active and sizes the canvas (which clears it).
cameraLoaded(d) ==
  /\ video' = d
  /\ isActive' = TRUE
  /\ canvas' = [w |-> d.w, h |-> d.h, img |-> 0]
  /\ metaPending' = FALSE
  /\ UNCHANGED <<stream, liveStreams>>

\* captureFrame(): the canvas after the call, v being the live signal
captureFrame(c, active, vid, v) ==
  IF ~active \/ vid.w = 0 THEN c ELSE [c EXCEPT !.img = v]

\* getFrameData()
getFrameData(c) == [w |-> c.w, h |-> c.h, kind |-> "raw", id |-> c.img]

\* getDimensions()
getDimensions(vid) ==
  [ w |-> IF vid.w # 0 THEN vid.w ELSE DefaultWidth,
    h |-> IF vid.h # 0 THEN vid.h ELSE DefaultHeight ]

\* ----------------------------------------------------------- EdgeDetectionApp
\* initializeOpenCV(): what it shows while it waits, on success, on failure
UiLoading(u) == updateStatus(showLoading(u, TRUE), "Loading OpenCV.js...")
UiEngineLoaded(u) ==
  showLoading(setStartButtonEnabled(
    updateStatus(u, "OpenCV.js loaded successfully! Click Start Camera to begin."), TRUE), FALSE)
UiEngineFailed(u) ==
  showLoading(updateStatus(u, "Failed to load OpenCV.js. Please refresh the page."), FALSE)

\* startCamera(): before the await and after it
UiStarting(u) == setStartButtonEnabled(updateStatus(u, "Starting camera..."), FALSE)
UiStarted(u, d) ==
  updateMode(
    updateStatus(
      setToggleButtonEnabled(
        setStartButtonText(updateResolution(u, d.w, d.h), "Stop Camera"), TRUE),
      "Camera active - Processing frames"),
    "Edge Detection")

\* startCamera()'s catch block without setStartButtonEnabled(true)
UiStartFailedNoRetry(u) ==
  updateStatus(u, "Failed to access camera. Please check permissions.")

\* startCamera()'s catch block
UiStartFailed(u) ==
  setStartButtonEnabled(
    updateStatus(u, "Failed to access camera. Please check permissions."), TRUE)

\* stopCamera() without setToggleButtonEnabled(false)
UiStoppedToggleLeft(u) ==
  updateMode(
    updateStatus(setStartButtonEnabled(setStartButtonText(u, "Start Camera"), TRUE),
                 "Camera stopped"),
    "Idle")

\* stopCamera()'s calls on the UI
UiStopped(u) ==
  updateMode(
    updateStatus(
      setToggleButtonEnabled(
        setStartButtonEnabled(setStartButtonText(u, "Start Camera"), TRUE), FALSE),
      "Camera stopped"),
    "Idle")

\* the toggle handler's calls on the UI, enabled being the new flag
UiToggled(u, enabled) ==
  setToggleButtonText(
    updateMode(u, IF enabled THEN "Edge Detection" ELSE "Raw Feed"),
    IF enabled THEN "Show Raw Feed" ELSE "Show Edge Detection")

\* stopCamera() without its cancelAnimationFrame call
CancelFrameSkipped(pending, id) == pending

\* cancelAnimationFrame(id), guarded by `if (this.animationFrameId)`
CancelFrame(pending, id) == IF id # 0 THEN pending \ {id} ELSE pending

\* The browser never hands a handle out twice, so a handle whose callback
\* has run or was cancelled names nothing for ever after.  The model writes
\* every such handle alike, as SpentHandle: held is what animationFrameId
\* holds, pending the callbacks still outstanding.
SpentHandle == 0 - 1
Held(held, pending) == IF held # 0 /\ held \notin pending THEN SpentHandle ELSE held

\* requestAnimationFrame's handle: one no outstanding callback carries
FreshHandle == Min({ h \in 1..(MaxPending + 1) : h \notin rafPending })

\* The tick about to run keeps frameCount within the model's bound: the
\* count is below it, or this tick closes the window and zeroes the count.
TickInBounds == frameCount < MaxFrameCount \/ now - lastTime >= WindowMs

Init ==
  /\ isRunning = FALSE /\ processingEnabled = TRUE /\ animationFrameId = 0
  /\ gumPending = 0 /\ metaPending = FALSE
  /\ tickpc = "none" /\ frameData = None /\ outputData = None
  /\ inStartCamera = FALSE /\ raised = FALSE /\ caught = FALSE /\ allocated = 0
  /\ stream = 0 /\ isActive = FALSE /\ video = NoDims /\ canvas = InitialCanvas
  /\ mats = NoMats /\ processingTime = 0
  /\ renderer = InitialRenderer
  /\ frameCount = 0 /\ lastTime = 0 /\ fps = 0 /\ now = 0
  /\ rafPending = {} /\ liveStreams = {}
  /\ cvState \in {"undefined", "loading", "ready"}
  /\ deviceDims \in Dims
  \* the constructor runs initializeOpenCV() up to its await, and the
  \* promise's reaction runs before any other event
  /\ isReady = (cvState = "ready")
  /\ initPc = (CASE cvState = "undefined" -> "rejected"
                 [] cvState = "ready" -> "resolved"
                 [] OTHER -> "pending")
  /\ timerPending = (cvState = "loading")
  /\ ui = (CASE cvState = "undefined" -> UiEngineFailed(UiLoading(InitialUi))
             [] cvState = "ready" -> UiEngineLoaded(UiLoading(InitialUi))
             [] OTHER -> UiLoading(InitialUi))

\* cv.onRuntimeInitialized
OnRuntimeInitialized ==
  /\ tickpc = "none" /\ cvState = "loading"
  /\ cvState' = "ready"
  /\ isReady' = TRUE
  /\ timerPending' = FALSE
  /\ IF initPc = "pending"
     THEN initPc' = "resolved" /\ ui' = UiEngineLoaded(ui)
     ELSE UNCHANGED <<initPc, ui>>
  /\ UNCHANGED <<isRunning, processingEnabled, animationFrameId, startVars, tickVars,
                 camVars, mats, processingTime, renderer, clockVars, now,
                 rafPending, liveStreams, deviceDims>>

\* initialize()'s setTimeout callback.  The model does not tie the 10 s to
\* `now`: the timer may fire before or after the engine comes up.  Once
\* isReady holds the callback does nothing, so timerPending is kept only
\* while the engine is not ready.
InitTimeout ==
  /\ tickpc = "none" /\ timerPending
  /\ timerPending' = FALSE
  /\ IF ~isReady /\ initPc = "pending"
     THEN initPc' = "rejected" /\ ui' = UiEngineFailed(ui)
     ELSE UNCHANGED <<initPc, ui>>
  /\ UNCHANGED <<isRunning, processingEnabled, animationFrameId, startVars, tickVars,
                 camVars, procVars, renderer, clockVars, now,
                 rafPending, liveStreams, cvState, deviceDims>>

\* stopCamera(), all of it but the UI calls
stopCameraState ==
  /\ isRunning' = FALSE
  /\ cameraStop
  /\ rafPending' = CancelFrame(rafPending, animationFrameId)
  /\ animationFrameId' = Held(animationFrameId, rafPending')
  /\ frameCount' = reset(now)[1] /\ lastTime' = reset(now)[2] /\ fps' = reset(now)[3]
  /\ UNCHANGED <<processingEnabled, initPc, startVars, tickVars,
                 isReady, processingTime, now, cvState, deviceDims, timerPending>>

\* the click handler without its `if (!this.isRunning)`: always startCamera()
StartButtonClickUnguarded ==
  /\ tickpc = "none" /\ ui.startEnabled
  /\ gumPending < MaxStarts
  /\ gumPending' = gumPending + 1
  /\ ui' = UiStarting(ui)
  /\ UNCHANGED <<appVars, metaPending, tickVars, camVars, procVars, renderer,
                 clockVars, now, envVars>>

\* the click handler with a stopCamera() that tears the processor and the
\* renderer down as cleanup() does
StartButtonClickDisposes ==
  /\ tickpc = "none" /\ ui.startEnabled
  /\ IF ~isRunning
     THEN /\ gumPending < MaxStarts
          /\ gumPending' = gumPending + 1
          /\ ui' = UiStarting(ui)
          /\ UNCHANGED <<appVars, metaPending, tickVars, camVars, procVars, renderer,
                         clockVars, now, envVars>>
     ELSE /\ stopCameraState
          /\ ui' = UiStopped(ui)
          /\ mats' = processorCleanup(mats)
          /\ renderer' = rendererCleanup(renderer)

\* the start button's click handler: startCamera() up to its await when not
\* running, stopCamera() when running.  A disabled button gets no click.
StartButtonClick ==
  /\ tickpc = "none" /\ ui.startEnabled
  /\ IF ~isRunning
     THEN /\ gumPending < MaxStarts
          /\ gumPending' = gumPending + 1
          /\ ui' = UiStarting(ui)
          /\ UNCHANGED <<appVars, metaPending, tickVars, camVars, procVars, renderer,
                         clockVars, now, envVars>>
     ELSE /\ stopCameraState
          /\ ui' = UiStopped(ui)
          /\ UNCHANGED <<mats, renderer>>

\* the toggle handler restarting the measurement window as well
ToggleButtonClickResets ==
  /\ tickpc = "none" /\ ui.toggleEnabled
  /\ processingEnabled' = ~processingEnabled
  /\ ui' = UiToggled(ui, processingEnabled')
  /\ frameCount' = 0 /\ lastTime' = now /\ fps' = 0
  /\ UNCHANGED <<isRunning, animationFrameId, initPc, startVars, tickVars, camVars,
                 procVars, renderer, now, envVars>>

\* the toggle button's click handler
ToggleButtonClick ==
  /\ tickpc = "none" /\ ui.toggleEnabled
  /\ processingEnabled' = ~processingEnabled
  /\ ui' = UiToggled(ui, processingEnabled')
  /\ UNCHANGED <<isRunning, animationFrameId, initPc, startVars, tickVars, camVars,
                 procVars, renderer, clockVars, now, envVars>>

\* getUserMedia resolves for one suspended startCamera()
GumGranted ==
  /\ tickpc = "none" /\ gumPending > 0
  /\ gumPending' = gumPending - 1
  /\ cameraGranted
  /\ UNCHANGED <<appVars, tickVars, ui, procVars, renderer, clockVars, now,
                 rafPending, cvState, deviceDims, timerPending>>

\* getUserMedia rejects (no device, permission denied): camera.start()
\* rethrows, startCamera()'s catch block runs
GumDenied ==
  /\ tickpc = "none" /\ gumPending > 0
  /\ gumPending' = gumPending - 1
  /\ ui' = UiStartFailed(ui)
  /\ UNCHANGED <<appVars, metaPending, tickVars, camVars, procVars, renderer,
                 clockVars, now, envVars>>

\* loadedmetadata: camera.start() returns and startCamera() runs on, down to
\* its call of processLoop(), whose `if (!this.isRunning) return` passes
MetadataLoaded ==
  /\ tickpc = "none" /\ metaPending
  /\ TickInBounds /\ Cardinality(rafPending) < MaxPending
  /\ cameraLoaded(deviceDims)
  /\ renderer' = resize(renderer, getDimensions(video').w, getDimensions(video').h)
  /\ ui' = UiStarted(ui, getDimensions(video'))
  /\ isRunning' = TRUE
  /\ tickpc' = "capture" /\ inStartCamera' = TRUE
  /\ UNCHANGED <<processingEnabled, animationFrameId, initPc, gumPending,
                 frameData, outputData, raised, caught, allocated, procVars, clockVars, now,
                 rafPending, cvState, deviceDims, timerPending>>

\* an animation-frame callback runs: processLoop() from its first line
AnimationFrame ==
  /\ tickpc = "none"
  /\ isRunning => TickInBounds
  /\ \E id \in rafPending :
       /\ rafPending' = rafPending \ {id}
       /\ animationFrameId' = Held(animationFrameId, rafPending')
  /\ tickpc' = (IF isRunning THEN "capture" ELSE "none")
  /\ UNCHANGED <<isRunning, processingEnabled, initPc, startVars, inStartCamera,
                 frameData, outputData, raised, caught, allocated, ui,
                 camVars, procVars, renderer, clockVars, now,
                 liveStreams, cvState, deviceDims, timerPending>>

\* processLoop: camera.captureFrame(); frameData = camera.getFrameData()
TickCapture ==
  /\ tickpc = "capture"
  /\ \E v \in Frames : canvas' = captureFrame(canvas, isActive, video, v)
  /\ frameData' = getFrameData(canvas')
  /\ tickpc' = "transform"
  /\ UNCHANGED <<appVars, startVars, inStartCamera, outputData, raised, caught, allocated, ui,
                 stream, isActive, video, procVars, renderer, clockVars, now, envVars>>

\* processLoop: outputData = processingEnabled ? processFrame(frameData) : frameData.
\* When processFrame throws the tick ends there: inside startCamera() the
\* catch block runs, inside an animation-frame callback nothing does.
TickTransform ==
  /\ tickpc = "transform"
  /\ IF processingEnabled
     THEN \E failAt \in FailPoints, d \in Durations :
            LET r == processFrame(frameData, isReady, mats, processingTime, failAt, d)
            IN /\ mats' = r.mats
               /\ processingTime' = r.time
               /\ raised' = r.raised
               /\ caught' = r.caught
               /\ allocated' = r.allocs
               /\ outputData' = r.out
               /\ IF r.raised
                  THEN /\ tickpc' = "none" /\ inStartCamera' = FALSE
                       /\ frameData' = None
                       /\ ui' = (IF inStartCamera THEN UiStartFailed(ui) ELSE ui)
                  ELSE /\ tickpc' = "present"
                       /\ UNCHANGED <<inStartCamera, frameData, ui>>
     ELSE /\ outputData' = frameData
          /\ tickpc' = "present"
          /\ UNCHANGED <<inStartCamera, frameData, ui, mats, processingTime, raised, caught, allocated>>
  /\ UNCHANGED <<appVars, startVars, camVars, isReady, renderer, clockVars,
                 now, envVars>>

\* processLoop rendering frameData instead of outputData
TickPresentRaw ==
  /\ tickpc = "present"
  /\ renderer' = render(renderer, frameData)
  /\ tickpc' = "clock"
  /\ UNCHANGED <<appVars, startVars, inStartCamera, frameData, outputData, raised,
                 caught, allocated, ui, camVars, procVars, clockVars, now, envVars>>

\* processLoop: renderer.render(outputData)
TickPresent ==
  /\ tickpc = "present"
  /\ renderer' = render(renderer, outputData)
  /\ tickpc' = "clock"
  /\ UNCHANGED <<appVars, startVars, inStartCamera, frameData, outputData, raised,
                 caught, allocated, ui, camVars, procVars, clockVars, now, envVars>>

\* processLoop: fps = fpsCounter.update(); the two UI calls;
\* animationFrameId = requestAnimationFrame(processLoop)
TickClock ==
  /\ tickpc = "clock"
  /\ LET c == update(frameCount, lastTime, fps, now)
     IN frameCount' = c[1] /\ lastTime' = c[2] /\ fps' = c[3]
  /\ ui' = updateProcessingTime(updateFPS(ui, fps'), getProcessingTime(processingTime))
  /\ animationFrameId' = FreshHandle
  /\ rafPending' = rafPending \cup {FreshHandle}
  /\ tickpc' = "none" /\ inStartCamera' = FALSE
  /\ frameData' = None /\ outputData' = None /\ raised' = FALSE /\ caught' = FALSE /\ allocated' = 0
  /\ UNCHANGED <<isRunning, processingEnabled, initPc, startVars, camVars,
                 procVars, renderer, now, liveStreams, cvState, deviceDims, timerPending>>

\* window beforeunload: app.cleanup()
Cleanup ==
  /\ tickpc = "none"
  /\ stopCameraState
  /\ ui' = UiStopped(ui)
  /\ mats' = processorCleanup(mats)
  /\ renderer' = rendererCleanup(renderer)

\* time passes between two handlers
TimePasses ==
  /\ tickpc = "none"
  /\ now < MaxSteps * TimeStep
  /\ now' = now + TimeStep
  /\ UNCHANGED <<appVars, startVars, tickVars, ui, camVars, procVars, renderer,
                 clockVars, envVars>>

Next ==
  \/ OnRuntimeInitialized
  \/ InitTimeout
  \/ StartButtonClick
  \/ ToggleButtonClick
  \/ GumGranted
  \/ GumDenied
  \/ MetadataLoaded
  \/ AnimationFrame
  \/ TickCapture
  \/ TickTransform
  \/ TickPresent
  \/ TickClock
  \/ Cleanup
  \/ TimePasses

Spec == Init /\ [][Next]_vars

\* ------------------------------------------------------------------ ApiSpec
\* A client of the exported classes: it calls CameraHandler's start(),
\* stop() and captureFrame() and OpenCVProcessor's processFrame(),
\* processGrayscale() and cleanup() in any order; getUserMedia, the video
\* element and the engine answer as they do for the application.  frameData
\* and outputData hold the argument and the result of the client's last
\* call into the processor.
ApiImages == { [w |-> deviceDims.w, h |-> deviceDims.h, kind |-> "raw", id |-> v] : v \in Frames }

ApiUnchangedApp == UNCHANGED <<appVars, tickpc, inStartCamera, ui, renderer, clockVars, now,
                               rafPending, cvState, deviceDims, timerPending>>

\* camera.start() is called and suspends at getUserMedia
ApiStart ==
  /\ gumPending < MaxStarts
  /\ gumPending' = gumPending + 1
  /\ UNCHANGED <<metaPending, camVars, liveStreams, procVars, frameData, outputData,
                 raised, caught, allocated>>
  /\ ApiUnchangedApp

ApiGranted ==
  /\ gumPending > 0
  /\ gumPending' = gumPending - 1
  /\ cameraGranted
  /\ UNCHANGED <<procVars, frameData, outputData, raised, caught, allocated>>
  /\ ApiUnchangedApp

\* getUserMedia rejects: start() logs and rethrows, nothing was assigned
ApiDenied ==
  /\ gumPending > 0
  /\ gumPending' = gumPending - 1
  /\ UNCHANGED <<metaPending, camVars, liveStreams, procVars, frameData, outputData,
                 raised, caught, allocated>>
  /\ ApiUnchangedApp

ApiLoaded ==
  /\ metaPending
  /\ cameraLoaded(deviceDims)
  /\ UNCHANGED <<gumPending, procVars, frameData, outputData, raised, caught, allocated>>
  /\ ApiUnchangedApp

ApiStop ==
  /\ cameraStop
  /\ UNCHANGED <<startVars, procVars, frameData, outputData, raised, caught, allocated>>
  /\ ApiUnchangedApp

ApiCaptureFrame ==
  /\ \E v \in Frames : canvas' = captureFrame(canvas, isActive, video, v)
  /\ UNCHANGED <<startVars, stream, isActive, video, liveStreams, procVars,
                 frameData, outputData, raised, caught, allocated>>
  /\ ApiUnchangedApp

ApiProcessFrame ==
  /\ \E img \in ApiImages \cup {getFrameData(canvas)}, failAt \in FailPoints, d \in Durations :
       LET r == processFrame(img, isReady, mats, processingTime, failAt, d)
       IN /\ frameData' = img
          /\ outputData' = r.out
          /\ raised' = r.raised
          /\ caught' = r.caught
          /\ allocated' = r.allocs
          /\ mats' = r.mats
          /\ processingTime' = r.time
  /\ UNCHANGED <<startVars, camVars, liveStreams, isReady>>
  /\ ApiUnchangedApp

ApiProcessGrayscale ==
  /\ \E img \in ApiImages \cup {getFrameData(canvas)}, failAt \in FailPoints, d \in Durations :
       LET r == processGrayscale(img, isReady, mats, processingTime, failAt, d)
       IN /\ frameData' = img
          /\ outputData' = r.out
          /\ raised' = r.raised
          /\ caught' = r.caught
          /\ allocated' = r.allocs
          /\ mats' = r.mats
          /\ processingTime' = r.time
  /\ UNCHANGED <<startVars, camVars, liveStreams, isReady>>
  /\ ApiUnchangedApp

ApiProcessorCleanup ==
  /\ mats' = processorCleanup(mats)
  /\ UNCHANGED <<startVars, camVars, liveStreams, isReady, processingTime,
                 frameData, outputData, raised, caught, allocated>>
  /\ ApiUnchangedApp

\* cv.onRuntimeInitialized, for a client that called initialize()
ApiEngineReady ==
  /\ cvState = "loading"
  /\ cvState' = "ready"
  /\ isReady' = TRUE
  /\ timerPending' = FALSE
  /\ initPc' = (IF initPc = "pending" THEN "resolved" ELSE initPc)
  /\ UNCHANGED <<isRunning, processingEnabled, animationFrameId, startVars, tickVars, ui,
                 camVars, mats, processingTime, renderer, clockVars, now,
                 rafPending, liveStreams, deviceDims>>

ApiNext ==
  \/ ApiStart
  \/ ApiGranted
  \/ ApiDenied
  \/ ApiLoaded
  \/ ApiStop
  \/ ApiCaptureFrame
  \/ ApiProcessFrame
  \/ ApiProcessGrayscale
  \/ ApiProcessorCleanup
  \/ ApiEngineReady

ApiSpec == Init /\ [][ApiNext]_vars

\* ---------------------------------------------------------------- ClockSpec
\* A client of FPSCounter: it calls update() and reset() at times of its
\* choosing.  fps is what update() returns.
ClockUnchanged == UNCHANGED <<appVars, startVars, tickVars, ui, camVars, procVars,
                              renderer, envVars>>

ClockUpdate ==
  /\ frameCount < MaxClockTicks
  /\ LET c == update(frameCount, lastTime, fps, now)
     IN frameCount' = c[1] /\ lastTime' = c[2] /\ fps' = c[3]
  /\ UNCHANGED now
  /\ ClockUnchanged

ClockReset ==
  /\ frameCount' = reset(now)[1] /\ lastTime' = reset(now)[2] /\ fps' = reset(now)[3]
  /\ UNCHANGED now
  /\ ClockUnchanged

ClockTimePasses ==
  /\ \E d \in ClockSteps : now + d <= MaxClockNow /\ now' = now + d
  /\ UNCHANGED clockVars
  /\ ClockUnchanged

ClockNext ==
  \/ ClockUpdate
  \/ ClockReset
  \/ ClockTimePasses

ClockSpec == Init /\ [][ClockNext]_vars

\* ------------------------------------------------------------------- claims
Running == isRunning
Starting == ~isRunning /\ (gumPending > 0 \/ metaPending)
Idle == ~isRunning /\ gumPending = 0 /\ ~metaPending

FailedStatus == "Failed to access camera. Please check permissions."

\* C1.  A stop request while Running (the step that takes isRunning from
\* true to false) cancels the continuation the application holds, closes
\* the source (no stream held, its tracks stopped, not active) and resets
\* the clock (count 0, rate 0, window starting now); and as long as the
\* pipeline is not Running no statement of a tick executes, no scheduled
\* continuation of the application's is outstanding, the source is not
\* active and the clock stays reset.  A tick is never cut short by a stop:
\* a stop runs only between ticks.
C1_StopStep ==
  (isRunning /\ ~isRunning') =>
     /\ tickpc = "none" /\ tickpc' = "none"
     /\ animationFrameId \notin rafPending'
     /\ animationFrameId' \notin rafPending'
     /\ stream' = 0 /\ ~isActive' /\ stream \notin liveStreams'
     /\ frameCount' = 0 /\ fps' = 0 /\ lastTime' = now
C1_NotRunning ==
  ~isRunning =>
     /\ tickpc = "none"
     /\ animationFrameId \notin rafPending
     /\ ~isActive
     /\ frameCount = 0 /\ fps = 0
C1_StopQuiesces == [][C1_StopStep]_vars /\ []C1_NotRunning
\* a stop has taken a pipeline that had run a tick back to not Running
C1_Witness ==
  /\ ~isRunning /\ ui.status = "Camera stopped" /\ animationFrameId = SpentHandle
  /\ rafPending = {} /\ ui.resolution # NoDims


\* C2.  In every tick executed while Running the statements run in the
\* order capture, transform-or-passthrough, present, clock update: a tick is
\* only ever inside a Running pipeline, it moves from one statement to the
\* next one only, the frame captured at the first statement is the one the
\* later statements see, the buffer handed to the presenter is what
\* processFrame returned for that frame when the flag is enabled at the tick
\* (its edge image, or the frame itself when processFrame caught an
\* internal failure) and the captured frame unchanged when the flag is
\* disabled, nothing but the present statement hands the presenter a
\* buffer, and nothing but the clock statement advances the clock.  (A
\* tick whose transform statement throws ends there and presents nothing.)
C2_Order ==
  { <<"none", "capture">>, <<"capture", "transform">>, <<"transform", "present">>,
    <<"present", "clock">>, <<"clock", "none">> }
C2_TickStep ==
  /\ tickpc' # tickpc => \/ <<tickpc, tickpc'>> \in C2_Order
                         \/ tickpc = "transform" /\ tickpc' = "none" /\ raised'
  /\ tickpc = "capture" => frameData' = getFrameData(canvas') /\ frameData'.kind = "raw"
  /\ (tickpc = "transform" /\ tickpc' = "present") =>
        /\ frameData' = frameData
        /\ outputData' = IF processingEnabled
                         THEN (IF caught' THEN frameData ELSE EdgeDetect(frameData))
                         ELSE frameData
  /\ tickpc = "present" =>
        /\ frameData' = frameData /\ outputData' = outputData
        /\ ~renderer.disposed => renderer'.texture = outputData
  /\ renderer'.texture # renderer.texture => (tickpc = "present" \/ renderer'.disposed)
  /\ (isRunning' /\ <<frameCount', lastTime', fps'>> # <<frameCount, lastTime, fps>>) =>
        /\ tickpc = "clock"
        /\ <<frameCount', lastTime', fps'>> = update(frameCount, lastTime, fps, now)
        /\ ui'.fps = fps'
C2_TickOrder == [][C2_TickStep]_vars /\ [](tickpc # "none" => isRunning)
\* a tick with the flag enabled has presented the edge image of its frame
C2_Witness ==
  /\ tickpc = "clock" /\ processingEnabled /\ ~caught
  /\ frameData.id # 0 /\ outputData = EdgeDetect(frameData)
  /\ renderer.texture = outputData

\* C3.  While the engine is not ready, a call of processFrame or of
\* processGrayscale returns its argument and raises nothing.  (frameData
\* and outputData are the argument and the result of the client's last call.)
C3_PassThroughWhenNotReady ==
  (~isReady /\ frameData # None) => (~raised /\ outputData = frameData)

\* C4.  An internal failure of processFrame, at whichever statement and on
\* the first call or a later one, does not reach the tick: with the engine
\* ready the transform statement never throws, the tick goes on to present,
\* and after a caught failure the buffer it presents is the captured frame
\* itself; the tick then updates the clock and schedules its continuation,
\* and a continuation that runs in a Running pipeline starts the next tick.
C4_TickStep ==
  /\ (tickpc = "transform" /\ processingEnabled /\ isReady) =>
        /\ ~raised' /\ tickpc' = "present"
        /\ frameData' = frameData
        /\ caught' => outputData' = frameData
  /\ (caught /\ tickpc = "present") =>
        /\ tickpc' = "clock"
        /\ ~renderer.disposed => renderer'.texture = frameData
  /\ (caught /\ tickpc = "clock") =>
        /\ tickpc' = "none" /\ isRunning' /\ animationFrameId' \in rafPending'
  /\ (tickpc = "none" /\ isRunning /\ isRunning' /\ rafPending' # rafPending
        /\ rafPending' \subseteq rafPending) => tickpc' = "capture"
C4_FailOpen ==
  [][C4_TickStep]_vars /\ [](caught => ~raised /\ outputData = frameData /\ isRunning)
\* a tick in which processFrame caught a failure has presented the frame
C4_Witness ==
  /\ caught /\ tickpc = "clock" /\ frameData.id # 0
  /\ renderer.texture = frameData

\* C5.  When getUserMedia rejects a start request, the error is shown as
\* the status and the start control is enabled again; that start request
\* makes nothing run, schedules no tick and leaves the source as it was;
\* and when no other start request is in progress the pipeline is Idle
\* afterwards, with the source not active and no continuation of the
\* application's outstanding.
C5_FailStep ==
  GumDenied =>
     /\ ui'.status = FailedStatus /\ ui'.startEnabled
     /\ ui'.mode = ui.mode /\ ui'.toggleEnabled = ui.toggleEnabled
     /\ UNCHANGED <<isRunning, animationFrameId, rafPending, camVars, liveStreams,
                    metaPending, clockVars>>
     /\ tickpc' = "none"
     /\ (~isRunning /\ ~metaPending /\ gumPending = 1) =>
           /\ Idle' /\ ~isActive' /\ stream' = 0
           /\ animationFrameId' \notin rafPending'
C5_FailedStart == [][C5_FailStep]_vars
\* a start request has failed and the pipeline is Idle with the start enabled
C5_Witness ==
  /\ Idle /\ ui.status = FailedStatus /\ ui.startEnabled
  /\ ~isActive /\ rafPending = {} /\ liveStreams = {}

\* C6.  A CameraHandler holds at most one open session: every stream whose
\* tracks are live is the one this.stream refers to.
C6_OneOpenSession == liveStreams \subseteq {stream}

\* C7.  No start is begun while the pipeline is Running: startCamera() is
\* entered only when isRunning is false, and a click on the start control
\* while Running requests no camera, opens no session and schedules no
\* continuation (the handler dispatches it to stopCamera()).
C7_ClickStep ==
  /\ gumPending' > gumPending => ~isRunning
  /\ (StartButtonClick /\ isRunning) =>
        /\ gumPending' = gumPending /\ metaPending' = metaPending
        /\ liveStreams' \subseteq liveStreams
        /\ rafPending' \subseteq rafPending
        /\ ui'.status # "Starting camera..."
C7_NoStartWhileRunning == [][C7_ClickStep]_vars
\* the pipeline is Running and its start control takes a click
C7_Witness == isRunning /\ ui.startEnabled /\ tickpc = "none" /\ gumPending = 0

\* C8.  A stop request while the pipeline is Idle changes nothing: not the
\* pipeline state, the processing flag or the source, and not the status
\* text, the mode label or the enabled state of the start and toggle
\* controls.  (cleanup() is the stop request an Idle pipeline can get.)
C8_StopStep ==
  (Cleanup /\ Idle) =>
     /\ UNCHANGED <<isRunning, processingEnabled, camVars, liveStreams>>
     /\ ui'.status = ui.status /\ ui'.mode = ui.mode
     /\ ui'.startEnabled = ui.startEnabled /\ ui'.toggleEnabled = ui.toggleEnabled
C8_StopWhileIdleNoOp == [][C8_StopStep]_vars

\* C9.  Whenever the pipeline is not Running (Idle or Starting) the toggle
\* control is disabled and the mode label reads Idle, and no step taken
\* between two such states changes the processing flag.
C9_NotRunning == ~isRunning => (~ui.toggleEnabled /\ ui.mode = "Idle")
C9_Step == (~isRunning /\ ~isRunning') => processingEnabled' = processingEnabled
C9_ToggleOnlyWhileRunning == []C9_NotRunning /\ [][C9_Step]_vars
\* a pipeline that was stopped after the flag had been toggled is starting again
C9_Witness ==
  /\ Starting /\ ~processingEnabled /\ ui.status = "Starting camera..."
  /\ ui.resolution # NoDims

\* C10.  A toggle (the one step that changes the flag or the toggle
\* control's text) happens in a Running pipeline between two ticks, turns
\* the flag into its negation and leaves the Running state, the scheduled
\* continuation, the capture session and the clock as they were, and the
\* control enabled for the next toggle; the flag does not change while a
\* tick is in progress, and every tick's transform statement goes by the
\* flag as it is then: the captured frame itself when it is off.
C10_ToggleStep ==
  /\ (processingEnabled' # processingEnabled \/ ui'.toggleText # ui.toggleText) =>
        /\ isRunning /\ tickpc = "none"
        /\ processingEnabled' = ~processingEnabled
        /\ ui'.toggleEnabled
        /\ ui'.mode = (IF processingEnabled' THEN "Edge Detection" ELSE "Raw Feed")
        /\ UNCHANGED <<isRunning, animationFrameId, rafPending, tickpc, camVars,
                       liveStreams, startVars, clockVars, now, procVars, renderer>>
        /\ ui'.status = ui.status /\ ui'.startEnabled = ui.startEnabled
        /\ ui'.fps = ui.fps
  /\ ToggleButtonClick => processingEnabled' # processingEnabled
  /\ (tickpc = "transform" /\ tickpc' = "present") =>
        /\ ~processingEnabled => (outputData' = frameData /\ UNCHANGED procVars)
        /\ (processingEnabled /\ ~caught') => outputData' = EdgeDetect(frameData)
C10_ToggleFlipsFlagOnly == [][C10_ToggleStep]_vars
\* after a toggle, a tick of the same Running period presents the raw frame
C10_Witness ==
  /\ ~processingEnabled /\ tickpc = "clock" /\ frameData.id # 0
  /\ outputData = frameData /\ renderer.texture = frameData
  /\ ui.mode = "Raw Feed"

\* C11.  A call of update() counts one frame; when 1000 ms or more have
\* passed since the window began, the rate it returns is the integer
\* nearest to count * 1000 / elapsed (halves upwards), the count goes back
\* to 0 and the window begins at the current time; otherwise it returns the
\* rate it held and leaves the window's beginning alone.  So the 30th call
\* of a window, made when elapsed >= 1000, returns round(30000 / elapsed).
C11_TickStep ==
  ClockUpdate =>
    LET elapsed == now - lastTime
        count == frameCount + 1
    IN IF elapsed >= 1000
       THEN /\ 2 * fps' * elapsed - elapsed <= 2 * count * 1000
            /\ 2 * count * 1000 < 2 * fps' * elapsed + elapsed
            /\ frameCount' = 0 /\ lastTime' = now
       ELSE /\ fps' = fps /\ lastTime' = lastTime /\ frameCount' = count
C11_TickRate == [][C11_TickStep]_vars
\* 30 calls spread over 1020 ms: the 30th has returned round(30000 / 1020)
C11_Witness == fps = 29 /\ frameCount = 0 /\ lastTime = 1020 /\ now = 1020

\* C12.  Every step that takes the pipeline out of Running leaves the
\* clock reset: count 0, rate 0, window beginning at the current time; so
\* whenever the pipeline is not Running the rate the clock holds is 0.
C12_StopStep ==
  (isRunning /\ ~isRunning') => (frameCount' = 0 /\ fps' = 0 /\ lastTime' = now)
C12_ResetOnStop == [][C12_StopStep]_vars /\ [](~isRunning => fps = 0)
\* a pipeline whose clock had measured a rate (still on display) was stopped
C12_Witness == ~isRunning /\ ui.fps # 0 /\ fps = 0 /\ lastTime = now

\* C13.  A call of processFrame that is not the first (this.mat is set) and
\* whose input has the dimensions of the call before it allocates no Mat.
C13_ApplyStep ==
  (ApiProcessFrame /\ mats.mat = "live" /\ frameData # None
     /\ frameData'.w = frameData.w /\ frameData'.h = frameData.h) => allocated' = 0
C13_AllocateOnce == [][C13_ApplyStep]_vars

\* C14.  The renderer has made one texture object, two buffers and one
\* program, all in its constructor, and the buffers hold what the
\* constructor put there: no call of render() or resize() makes another or
\* writes to the buffers; render() changes the one texture's content (and
\* the viewport) and nothing else, resize() the canvas size and the viewport.
C14_Resources ==
  /\ renderer.textures = 1 /\ renderer.buffers = 2 /\ renderer.programs = 1
  /\ renderer.geometry = "quad"
C14_RenderStep ==
  /\ tickpc = "present" =>
        renderer' = [renderer EXCEPT !.texture = renderer'.texture,
                                     !.viewport = renderer'.viewport]
  /\ (renderer'.width # renderer.width \/ renderer'.height # renderer.height) =>
        renderer' = [renderer EXCEPT !.width = renderer'.width, !.height = renderer'.height,
                                     !.viewport = renderer'.viewport]
C14_OneTexture == []C14_Resources /\ [][C14_RenderStep]_vars
\* the second tick of a loop has presented its buffer
C14_Witness ==
  /\ tickpc = "clock" /\ animationFrameId = SpentHandle /\ ~renderer.disposed
  /\ renderer.texture = outputData /\ outputData # None
  /\ renderer.width = deviceDims.w

\* C15.  No statement of a tick calls processFrame or render() once
\* cleanup() has disposed the processor and the renderer.  (cleanup() itself
\* runs stopCamera() first and the two disposals after it, in one handler.)
C15_NoUseAfterDispose == tickpc \in {"transform", "present"} => ~renderer.disposed

\* C16.  A stop request (a click on the start control while Running) leaves
\* the processor and the renderer as they were: engine readiness, the Mats,
\* the texture and its content, the buffers and the program; and nothing
\* but cleanup() disposes the renderer or deletes a Mat, so a later start
\* finds the resources the stop left.
C16_StopStep ==
  /\ (StartButtonClick /\ isRunning) =>
        (~isRunning' /\ UNCHANGED <<isReady, mats, processingTime, renderer>>)
  /\ ~Cleanup =>
        /\ renderer'.disposed = renderer.disposed
        /\ \A k \in {"mat", "grayMat", "edgeMat"} : mats'[k] = "deleted" => mats[k] = "deleted"
C16_StopKeepsResources == [][C16_StopStep]_vars
\* a click has stopped a pipeline whose processor had allocated its Mats
C16_Witness ==
  /\ ~isRunning /\ ui.status = "Camera stopped" /\ mats.mat = "live"
  /\ rafPending = {} /\ ~isActive

\* C17.  Once processor.initialize() has failed (script missing, or the
\* 10 s timeout), the start control is disabled and the pipeline is Idle in
\* every later state, and no tick runs while the engine is not ready.
C17_EngineFailureBlocksStart ==
  /\ initPc = "rejected" => (~ui.startEnabled /\ Idle)
  /\ tickpc # "none" => isReady

\* C18.  After a call of stop() the handler refers to no stream, is not
\* active, and the stream it referred to has its tracks stopped; a call
\* made when it refers to no stream and is not active (never started, or
\* stopped already) changes nothing.  The video element and the canvas are
\* never touched by stop().
C18_CloseStep ==
  ApiStop =>
     /\ stream' = 0 /\ ~isActive' /\ stream \notin liveStreams'
     /\ liveStreams' \subseteq liveStreams
     /\ UNCHANGED <<video, canvas>>
     /\ (stream = 0 /\ ~isActive) => UNCHANGED <<camVars, liveStreams>>
C18_CloseIdempotent == [][C18_CloseStep]_vars
\* a session that had been opened and had delivered metadata was closed
C18_Witness == stream = 0 /\ ~isActive /\ video # NoDims /\ liveStreams = {} /\ ~metaPending

\* C19.  At most one animation-frame callback of processLoop is
\* outstanding at any time (one loop, one scheduled continuation).
C19_OneContinuation == Cardinality(rafPending) <= 1

\* C20.  Whenever the running flag is set, a tick is in progress or the
\* continuation the application holds is scheduled.
C20_LoopAlive == isRunning => (tickpc # "none" \/ animationFrameId \in rafPending)

\* C21.  The step that begins a Running period has opened the source, read
\* its dimensions and resized the renderer (canvas and viewport) to them,
\* and only then begins the first tick: no frame of the period was
\* presented before; and whenever a tick is about to present, the renderer
\* has the size of the buffer it is handed.
C21_StartStep ==
  (~isRunning /\ isRunning') =>
     /\ isActive' /\ video' = deviceDims
     /\ renderer'.width = getDimensions(video').w /\ renderer'.height = getDimensions(video').h
     /\ renderer'.viewport = getDimensions(video')
     /\ renderer'.texture = renderer.texture
     /\ ui'.resolution = getDimensions(video')
     /\ tickpc = "none" /\ tickpc' = "capture" /\ inStartCamera'
C21_Sized ==
  tickpc = "present" => (renderer.width = outputData.w /\ renderer.height = outputData.h)
C21_ResizeBeforePresent == [][C21_StartStep]_vars /\ []C21_Sized
\* the first tick of the first Running period is about to present
C21_Witness ==
  /\ tickpc = "present" /\ inStartCamera /\ animationFrameId = 0
  /\ renderer.texture = None /\ renderer.width = deviceDims.w

\* C22.  While the pipeline is Running the mode label reads "Edge
\* Detection" exactly when the processing flag is set and "Raw Feed"
\* exactly when it is not.
C22_ModeAgrees ==
  isRunning => /\ (ui.mode = "Edge Detection") <=> processingEnabled
               /\ (ui.mode = "Raw Feed") <=> ~processingEnabled

\* C23.  Once cleanup() has run, the pipeline is not Running, the camera
\* handler is not active and holds no stream, no stream of the device is
\* live, and no tick is in progress or scheduled.
C23_QuietAfterShutdown ==
  renderer.disposed =>
     /\ ~isRunning /\ ~isActive /\ stream = 0 /\ liveStreams = {}
     /\ tickpc = "none" /\ rafPending = {}

\* C24.  The step that begins a Running period leaves the clock such that
\* a tick made at once, as startCamera() makes it in the same handler with
\* the pipeline Running for 0 ms, returns the rate 0: the time before the
\* start is in no measurement window.
C24_StartStep ==
  (~isRunning /\ isRunning') => update(frameCount', lastTime', fps', now')[3] = 0
C24_IdleNotCounted == [][C24_StartStep]_vars

=============================================================================
